---- MODULE Spec2Model ----
(***************************************************************************)
(* A model of the MDOF-Ontology core: Device (src/device.py), Command      *)
(* (src/command.py) and Mode (src/mode.py).                                *)
(*                                                                         *)
(* Every method is one action.  The objects have one caller, on one        *)
(* thread: a call is made when the previous one has returned.  `call`      *)
(* holds the call that has just been made (operation, arguments, returned  *)
(* value), `notes` the notifications it made and `delivered` the observers *)
(* that were called, in order, until the caller takes the result (Return). *)
(* An observer either logs what it is told or unsubscribes in its          *)
(* callback; callbacks return normally.                                    *)
(*                                                                         *)
(* The bodies of the try blocks of Device.connect, Device.send_command and *)
(* Command.execute hold a placeholder ("... logic would go here") for the  *)
(* transport call; its outcome (success, or an exception raised at the     *)
(* placeholder) is an input of the action.                                 *)
(***************************************************************************)
EXTENDS Integers, Sequences, FiniteSets, TLC

VARIABLES
    \* Device
    device_observers,
    is_connected, status, current_mode, available_modes, command_history,
    last_command_time, error_count, last_error, connection_attempts,
    last_heartbeat, now,
    \* Command
    command_observers,
    required_parameters, parameter_types, parameter_ranges, retry_count,
    \* Mode
    mode_observers,
    allowed_commands, required_commands,
    state_variables, transitions, current_state, history,
    \* the last call, the notifications it made and the observers they reached
    call, notes, delivered

devVars == <<is_connected, status, current_mode, available_modes, command_history,
             last_command_time, error_count, last_error, connection_attempts,
             last_heartbeat, now>>
cmdVars == <<required_parameters, parameter_types, parameter_ranges, retry_count>>
modeVars == <<allowed_commands, required_commands, state_variables, transitions,
              current_state, history>>
obsVars == <<device_observers, command_observers, mode_observers>>
vars == <<devVars, cmdVars, modeVars, obsVars, call, notes, delivered>>

----------------------------------------------------------------------------
(* Values *)

\* Python's None for a string-valued field.
None == "None"
\* Python's None for a timestamp field; a set timestamp t is <<t>>.
NoTime == <<>>
At(t) == <<t>>

\* No call is in progress: the caller may make one.
NoCall == [op |-> "none", ret |-> None]
Idle == call = NoCall

----------------------------------------------------------------------------
(* Bounds of the model *)

MaxClock == 31
MaxHistory == 2
MaxErrors == 1
MaxRetry == 3
MaxTransitions == 2
MaxModeHistory == 2

----------------------------------------------------------------------------
(* Observers: the same three methods in Device, Command and Mode *)

\* The observers: the window of the application, which logs what it is told,
\* and a one-shot observer, which unsubscribes itself in its callback.
Observers == {"ui", "once"}

\* The observers that the callback of o passes to remove_observer.
Unsubscribes(o) == IF o = "once" THEN {"once"} ELSE {}

\* An add_observer without the membership test.
add_observer_Unchecked(observers, o) == Append(observers, o)

\* if observer not in self._observers: self._observers.append(observer)
add_observer(observers, o) ==
    IF \E i \in 1..Len(observers) : observers[i] = o
    THEN observers
    ELSE Append(observers, o)

\* if observer in self._observers: self._observers.remove(observer)
\* (list.remove takes out the first occurrence)
remove_observer(observers, o) ==
    IF \E i \in 1..Len(observers) : observers[i] = o
    THEN LET k == CHOOSE i \in 1..Len(observers) :
                      /\ observers[i] = o
                      /\ \A j \in 1..(i - 1) : observers[j] # o
         IN SubSeq(observers, 1, k - 1) \o SubSeq(observers, k + 1, Len(observers))
    ELSE observers

\* The list once the callback of o has made its remove_observer calls.
RECURSIVE AfterCallback(_, _)
AfterCallback(observers, removed) ==
    IF removed = {} THEN observers
    ELSE LET x == CHOOSE x \in removed : TRUE
         IN AfterCallback(remove_observer(observers, x), removed \ {x})

\* for observer in self._observers: observer.on_..._changed(self, ...)
\* The loop reads the live list by position: nxt is the next position to
\* read, and the loop ends when nxt is past the end of the list as it then is.
RECURSIVE notify_observers(_, _, _)
notify_observers(observers, nxt, called) ==
    IF nxt > Len(observers)
    THEN [observers |-> observers, delivered |-> called]
    ELSE notify_observers(AfterCallback(observers, Unsubscribes(observers[nxt])),
                          nxt + 1, Append(called, observers[nxt]))

\* The notify_observers calls of one method, one after the other.
RECURSIVE Notifications(_, _, _)
Notifications(observers, n, called) ==
    IF n = 0 THEN [observers |-> observers, delivered |-> called]
    ELSE LET r == notify_observers(observers, 1, called)
         IN Notifications(r.observers, n - 1, r.delivered)

\* A method that notifies nobody.
Quiet ==
    /\ delivered' = <<>>
    /\ UNCHANGED obsVars

\* The call Device.add_observer(o).
Device_add_observer(o) ==
    /\ Idle
    /\ device_observers' = add_observer(device_observers, o)
    /\ UNCHANGED <<command_observers, mode_observers>>
    /\ UNCHANGED <<devVars, cmdVars, modeVars>>
    /\ call' = [op |-> "add_observer", on |-> "Device", before |-> device_observers, observer |-> o, ret |-> None]
    /\ notes' = <<>>
    /\ delivered' = <<>>

\* The call Device.remove_observer(o).
Device_remove_observer(o) ==
    /\ Idle
    /\ device_observers' = remove_observer(device_observers, o)
    /\ UNCHANGED <<command_observers, mode_observers>>
    /\ UNCHANGED <<devVars, cmdVars, modeVars>>
    /\ call' = [op |-> "remove_observer", on |-> "Device", before |-> device_observers, observer |-> o, ret |-> None]
    /\ notes' = <<>>
    /\ delivered' = <<>>

\* The call Command.add_observer(o).
Command_add_observer(o) ==
    /\ Idle
    /\ command_observers' = add_observer(command_observers, o)
    /\ UNCHANGED <<device_observers, mode_observers>>
    /\ UNCHANGED <<devVars, cmdVars, modeVars>>
    /\ call' = [op |-> "add_observer", on |-> "Command", before |-> command_observers, observer |-> o, ret |-> None]
    /\ notes' = <<>>
    /\ delivered' = <<>>

\* The call Command.remove_observer(o).
Command_remove_observer(o) ==
    /\ Idle
    /\ command_observers' = remove_observer(command_observers, o)
    /\ UNCHANGED <<device_observers, mode_observers>>
    /\ UNCHANGED <<devVars, cmdVars, modeVars>>
    /\ call' = [op |-> "remove_observer", on |-> "Command", before |-> command_observers, observer |-> o, ret |-> None]
    /\ notes' = <<>>
    /\ delivered' = <<>>

\* The call Mode.add_observer(o).
Mode_add_observer(o) ==
    /\ Idle
    /\ mode_observers' = add_observer(mode_observers, o)
    /\ UNCHANGED <<device_observers, command_observers>>
    /\ UNCHANGED <<devVars, cmdVars, modeVars>>
    /\ call' = [op |-> "add_observer", on |-> "Mode", before |-> mode_observers, observer |-> o, ret |-> None]
    /\ notes' = <<>>
    /\ delivered' = <<>>

\* The call Mode.remove_observer(o).
Mode_remove_observer(o) ==
    /\ Idle
    /\ mode_observers' = remove_observer(mode_observers, o)
    /\ UNCHANGED <<device_observers, command_observers>>
    /\ UNCHANGED <<devVars, cmdVars, modeVars>>
    /\ call' = [op |-> "remove_observer", on |-> "Mode", before |-> mode_observers, observer |-> o, ret |-> None]
    /\ notes' = <<>>
    /\ delivered' = <<>>

----------------------------------------------------------------------------
(* Device: src/device.py *)

max_connection_attempts == 3
heartbeat_interval == 30

\* Mode identifiers passed to set_mode, and those the caller registers.
ModeIds == {"manual", "auto"}
KnownModeIds == {"manual"}
CommandIds == {"move"}
ParamSets == {"None", "p"}

DeviceInit ==
    /\ device_observers = <<>>
    /\ is_connected = FALSE
    /\ current_mode = None
    /\ available_modes = <<>>
    /\ command_history = <<>>
    /\ last_command_time = NoTime
    /\ status = "disconnected"
    /\ error_count = 0
    /\ last_error = None
    /\ connection_attempts = 0
    /\ last_heartbeat = NoTime
    /\ now = 0

\* The fields that the methods of Device assign, as an observer reads them.
DeviceFields ==
    [is_connected |-> is_connected, status |-> status, current_mode |-> current_mode,
     command_history |-> command_history,
     last_command_time |-> last_command_time, error_count |-> error_count,
     last_error |-> last_error, connection_attempts |-> connection_attempts,
     last_heartbeat |-> last_heartbeat]

\* A delivery made before the method's assignments.
DeviceNote_BeforeCommit(st, conn) ==
    [event |-> "device_state_changed", status |-> st, is_connected |-> conn,
     device |-> DeviceFields]

\* notify_observers(): one on_device_state_changed(self) delivery. In every
\* method it is the statement that follows the assignments of its branch, so
\* the observer reads the device as the method leaves it.
DeviceNote(st, conn) ==
    [event |-> "device_state_changed", status |-> st, is_connected |-> conn,
     device |-> DeviceFields']

\* The deliveries of the notifications of a Device method.
DeviceDelivery ==
    LET r == Notifications(device_observers, Len(notes'), <<>>)
    IN /\ device_observers' = r.observers
       /\ delivered' = r.delivered
       /\ UNCHANGED <<command_observers, mode_observers>>

\* time.time() advances between calls.
Tick ==
    /\ \E d \in {heartbeat_interval, heartbeat_interval + 1} :
          /\ now + d <= MaxClock
          /\ now' = now + d
    /\ UNCHANGED <<is_connected, status, current_mode, available_modes, command_history,
                   last_command_time, error_count, last_error, connection_attempts,
                   last_heartbeat>>
    /\ UNCHANGED <<cmdVars, modeVars, obsVars, call, notes, delivered>>

\* The caller fills the public list available_modes.
register_mode(m) ==
    /\ m \notin {available_modes[i] : i \in 1..Len(available_modes)}
    /\ available_modes' = Append(available_modes, m)
    /\ UNCHANGED <<is_connected, status, current_mode, command_history,
                   last_command_time, error_count, last_error, connection_attempts,
                   last_heartbeat, now>>
    /\ UNCHANGED <<cmdVars, modeVars, obsVars, call, notes, delivered>>

\* A budget test that is off by one: one attempt too many.
ConnectBudgetSpent_OffByOne == connection_attempts > max_connection_attempts

\* A budget test that gives up one attempt early.
ConnectBudgetSpent_Early == connection_attempts >= max_connection_attempts - 1

ConnectBudgetSpent == connection_attempts >= max_connection_attempts

\* A refusal that counts as one more attempt.
ConnectRefused_Counted ==
    /\ status' = "connection_failed"
    /\ connection_attempts' = connection_attempts + 1
    /\ UNCHANGED <<is_connected, last_heartbeat, last_error>>
    /\ call' = [op |-> "connect", ret |-> FALSE, attempted |-> FALSE]
    /\ notes' = <<DeviceNote("connection_failed", is_connected)>>

\* connect(), budget spent: lines 42-45.
ConnectRefused ==
    /\ status' = "connection_failed"
    /\ UNCHANGED <<is_connected, connection_attempts, last_heartbeat, last_error>>
    /\ call' = [op |-> "connect", ret |-> FALSE, attempted |-> FALSE]
    /\ notes' = <<DeviceNote("connection_failed", is_connected)>>

\* A success that does not stamp the heartbeat.
ConnectSucceeds_NoHeartbeat ==
    /\ is_connected' = TRUE
    /\ status' = "connected"
    /\ connection_attempts' = 0
    /\ UNCHANGED <<last_heartbeat, last_error>>
    /\ call' = [op |-> "connect", ret |-> TRUE, attempted |-> TRUE, outcome |-> TRUE]
    /\ notes' = <<DeviceNote("connected", TRUE)>>

\* A success that leaves the attempt counter as it was.
ConnectSucceeds_KeepsAttempts ==
    /\ is_connected' = TRUE
    /\ status' = "connected"
    /\ last_heartbeat' = At(now)
    /\ UNCHANGED <<connection_attempts, last_error>>
    /\ call' = [op |-> "connect", ret |-> TRUE, attempted |-> TRUE, outcome |-> TRUE]
    /\ notes' = <<DeviceNote("connected", TRUE)>>

\* connect(), the transport attempt succeeds: lines 47-54.
ConnectSucceeds ==
    /\ is_connected' = TRUE
    /\ status' = "connected"
    /\ connection_attempts' = 0
    /\ last_heartbeat' = At(now)
    /\ UNCHANGED last_error
    /\ call' = [op |-> "connect", ret |-> TRUE, attempted |-> TRUE, outcome |-> TRUE]
    /\ notes' = <<DeviceNote("connected", TRUE)>>

\* A failure that tries the transport a second time within the call.
ConnectFaults_RetriesOnce ==
    /\ connection_attempts' = connection_attempts + 2
    /\ last_error' = "fault"
    /\ status' = "connection_error"
    /\ UNCHANGED <<is_connected, last_heartbeat>>
    /\ call' = [op |-> "connect", ret |-> FALSE, attempted |-> TRUE, outcome |-> FALSE]
    /\ notes' = <<DeviceNote("connection_error", is_connected)>>

\* connect(), the transport attempt raises: lines 55-60.
ConnectFaults ==
    /\ connection_attempts' = connection_attempts + 1
    /\ last_error' = "fault"
    /\ status' = "connection_error"
    /\ UNCHANGED <<is_connected, last_heartbeat>>
    /\ call' = [op |-> "connect", ret |-> FALSE, attempted |-> TRUE, outcome |-> FALSE]
    /\ notes' = <<DeviceNote("connection_error", is_connected)>>

connect(ok) ==
    /\ Idle
    /\ UNCHANGED <<current_mode, available_modes, command_history, last_command_time,
                   error_count, now>>
    /\ UNCHANGED <<cmdVars, modeVars>>
    /\ IF ConnectBudgetSpent THEN ConnectRefused
       ELSE IF ok THEN ConnectSucceeds
       ELSE ConnectFaults
    /\ DeviceDelivery

\* A disconnect that gives the attempt budget back.
disconnect_RestoresBudget ==
    /\ Idle
    /\ is_connected' = FALSE
    /\ status' = "disconnected"
    /\ current_mode' = None
    /\ connection_attempts' = 0
    /\ UNCHANGED <<available_modes, command_history, last_command_time, error_count,
                   last_error, last_heartbeat, now>>
    /\ UNCHANGED <<cmdVars, modeVars>>
    /\ call' = [op |-> "disconnect", ret |-> None]
    /\ notes' = <<DeviceNote("disconnected", FALSE)>>
    /\ DeviceDelivery

\* A disconnect that keeps the mode.
disconnect_KeepsMode ==
    /\ Idle
    /\ is_connected' = FALSE
    /\ status' = "disconnected"
    /\ UNCHANGED <<current_mode, available_modes, command_history, last_command_time,
                   error_count, last_error, connection_attempts, last_heartbeat, now>>
    /\ UNCHANGED <<cmdVars, modeVars>>
    /\ call' = [op |-> "disconnect", ret |-> None]
    /\ notes' = <<DeviceNote("disconnected", FALSE)>>
    /\ DeviceDelivery

\* A disconnect that forgets the commands of the session.
disconnect_ClearsHistory ==
    /\ Idle
    /\ is_connected' = FALSE
    /\ status' = "disconnected"
    /\ current_mode' = None
    /\ command_history' = <<>>
    /\ UNCHANGED <<available_modes, last_command_time, error_count,
                   last_error, connection_attempts, last_heartbeat, now>>
    /\ UNCHANGED <<cmdVars, modeVars>>
    /\ call' = [op |-> "disconnect", ret |-> None]
    /\ notes' = <<DeviceNote("disconnected", FALSE)>>
    /\ DeviceDelivery

disconnect ==
    /\ Idle
    /\ is_connected' = FALSE
    /\ status' = "disconnected"
    /\ current_mode' = None
    /\ UNCHANGED <<available_modes, command_history, last_command_time, error_count,
                   last_error, connection_attempts, last_heartbeat, now>>
    /\ UNCHANGED <<cmdVars, modeVars>>
    /\ call' = [op |-> "disconnect", ret |-> None]
    /\ notes' = <<DeviceNote("disconnected", FALSE)>>
    /\ DeviceDelivery

\* A guard that also consults the status label.
SendCommandRejected_ByStatus == ~is_connected \/ status # "connected"

\* The guard of send_command.
SendCommandRejected == ~is_connected

\* send_command(), not connected: lines 71-74.
SendRefused(command, params) ==
    /\ status' = "not_connected"
    /\ UNCHANGED <<command_history, last_command_time, error_count, last_error>>
    /\ call' = [op |-> "send_command", ret |-> FALSE, command |-> command,
                params |-> params]
    /\ notes' = <<DeviceNote("not_connected", is_connected)>>

\* A success that records the newest entry first.
SendSucceeds_Prepends(command, params) ==
    /\ Len(command_history) < MaxHistory
    /\ command_history' =
          <<[command |-> command, params |-> params, timestamp |-> now]>> \o command_history
    /\ last_command_time' = At(now)
    /\ status' = "command_sent"
    /\ UNCHANGED <<error_count, last_error>>
    /\ call' = [op |-> "send_command", ret |-> TRUE, command |-> command,
                params |-> params, outcome |-> TRUE]
    /\ notes' = <<DeviceNote("command_sent", is_connected)>>

\* send_command(), the transport call succeeds: lines 76-86.
SendSucceeds(command, params) ==
    /\ Len(command_history) < MaxHistory
    /\ command_history' = Append(command_history,
           [command |-> command, params |-> params, timestamp |-> now])
    /\ last_command_time' = At(now)
    /\ status' = "command_sent"
    /\ UNCHANGED <<error_count, last_error>>
    /\ call' = [op |-> "send_command", ret |-> TRUE, command |-> command,
                params |-> params, outcome |-> TRUE]
    /\ notes' = <<DeviceNote("command_sent", is_connected)>>

\* A failure that is not counted.
SendFaults_Uncounted(command, params) ==
    /\ error_count < MaxErrors
    /\ last_error' = "fault"
    /\ status' = "command_error"
    /\ UNCHANGED <<command_history, last_command_time, error_count>>
    /\ call' = [op |-> "send_command", ret |-> FALSE, command |-> command,
                params |-> params, outcome |-> FALSE]
    /\ notes' = <<DeviceNote("command_error", is_connected)>>

\* send_command(), the transport call raises: lines 87-92.
SendFaults(command, params) ==
    /\ error_count < MaxErrors
    /\ error_count' = error_count + 1
    /\ last_error' = "fault"
    /\ status' = "command_error"
    /\ UNCHANGED <<command_history, last_command_time>>
    /\ call' = [op |-> "send_command", ret |-> FALSE, command |-> command,
                params |-> params, outcome |-> FALSE]
    /\ notes' = <<DeviceNote("command_error", is_connected)>>

send_command(command, params, ok) ==
    /\ Idle
    /\ UNCHANGED <<is_connected, current_mode, available_modes, connection_attempts,
                   last_heartbeat, now>>
    /\ UNCHANGED <<cmdVars, modeVars>>
    /\ IF SendCommandRejected THEN SendRefused(command, params)
       ELSE IF ok THEN SendSucceeds(command, params)
       ELSE SendFaults(command, params)
    /\ DeviceDelivery

\* A test that also refuses every mode while the device is disconnected.
ModeUnknown_OrDisconnected(mode) ==
    \/ mode \notin {available_modes[i] : i \in 1..Len(available_modes)}
    \/ ~is_connected

\* mode not in self.available_modes
ModeUnknown(mode) == mode \notin {available_modes[i] : i \in 1..Len(available_modes)}

\* The try block of set_mode holds two assignments and the notification: its
\* except branch runs only if an observer's callback raises, and the
\* observer of this repository (MainWindow.on_device_state_changed) only logs.
set_mode(mode) ==
    /\ Idle
    /\ UNCHANGED <<is_connected, available_modes, command_history, last_command_time,
                   error_count, last_error, connection_attempts, last_heartbeat, now>>
    /\ UNCHANGED <<cmdVars, modeVars>>
    /\ IF ModeUnknown(mode)
       THEN /\ status' = "invalid_mode"
            /\ UNCHANGED current_mode
            /\ call' = [op |-> "set_mode", ret |-> FALSE, mode |-> mode]
            /\ notes' = <<DeviceNote("invalid_mode", is_connected)>>
       ELSE /\ current_mode' = mode
            /\ status' = "mode_changed"
            /\ call' = [op |-> "set_mode", ret |-> TRUE, mode |-> mode]
            /\ notes' = <<DeviceNote("mode_changed", is_connected)>>
    /\ DeviceDelivery

\* A heartbeat that marks the device connected.
update_heartbeat_Reconnects ==
    /\ Idle
    /\ last_heartbeat' = At(now)
    /\ status' = "connected"
    /\ is_connected' = TRUE
    /\ UNCHANGED <<current_mode, available_modes, command_history,
                   last_command_time, error_count, last_error, connection_attempts, now>>
    /\ UNCHANGED <<cmdVars, modeVars>>
    /\ call' = [op |-> "update_heartbeat", ret |-> None]
    /\ notes' = <<DeviceNote("connected", TRUE)>>
    /\ DeviceDelivery

update_heartbeat ==
    /\ Idle
    /\ last_heartbeat' = At(now)
    /\ status' = "connected"
    /\ UNCHANGED <<is_connected, current_mode, available_modes, command_history,
                   last_command_time, error_count, last_error, connection_attempts, now>>
    /\ UNCHANGED <<cmdVars, modeVars>>
    /\ call' = [op |-> "update_heartbeat", ret |-> None]
    /\ notes' = <<DeviceNote("connected", is_connected)>>
    /\ DeviceDelivery

\* A staleness test that includes the boundary.
HeartbeatStale_Inclusive == now - last_heartbeat[1] >= heartbeat_interval

\* now - last_heartbeat > heartbeat_interval, strictly.
HeartbeatStale == now - last_heartbeat[1] > heartbeat_interval

\* A check that also resets the mode when it marks the connection lost.
check_connection_ClearsMode ==
    /\ Idle
    /\ UNCHANGED <<available_modes, command_history, last_command_time,
                   error_count, last_error, connection_attempts, last_heartbeat, now>>
    /\ UNCHANGED <<cmdVars, modeVars>>
    /\ IF ~is_connected
       THEN /\ call' = [op |-> "check_connection", ret |-> FALSE]
            /\ notes' = <<>>
            /\ UNCHANGED <<is_connected, status, current_mode>>
       ELSE IF last_heartbeat = NoTime
       THEN /\ call' = [op |-> "check_connection", ret |-> "TypeError"]
            /\ notes' = <<>>
            /\ UNCHANGED <<is_connected, status, current_mode>>
       ELSE IF HeartbeatStale
       THEN /\ status' = "connection_lost"
            /\ is_connected' = FALSE
            /\ current_mode' = None
            /\ call' = [op |-> "check_connection", ret |-> FALSE]
            /\ notes' = <<DeviceNote("connection_lost", FALSE)>>
       ELSE /\ call' = [op |-> "check_connection", ret |-> TRUE]
            /\ notes' = <<>>
            /\ UNCHANGED <<is_connected, status, current_mode>>
    /\ DeviceDelivery

check_connection ==
    /\ Idle
    /\ UNCHANGED <<current_mode, available_modes, command_history, last_command_time,
                   error_count, last_error, connection_attempts, last_heartbeat, now>>
    /\ UNCHANGED <<cmdVars, modeVars>>
    /\ IF ~is_connected
       THEN /\ call' = [op |-> "check_connection", ret |-> FALSE]
            /\ notes' = <<>>
            /\ UNCHANGED <<is_connected, status>>
       ELSE IF last_heartbeat = NoTime
       THEN \* float - None: TypeError leaves the method
            /\ call' = [op |-> "check_connection", ret |-> "TypeError"]
            /\ notes' = <<>>
            /\ UNCHANGED <<is_connected, status>>
       ELSE IF HeartbeatStale
       THEN /\ status' = "connection_lost"
            /\ is_connected' = FALSE
            /\ call' = [op |-> "check_connection", ret |-> FALSE]
            /\ notes' = <<DeviceNote("connection_lost", FALSE)>>
       ELSE /\ call' = [op |-> "check_connection", ret |-> TRUE]
            /\ notes' = <<>>
            /\ UNCHANGED <<is_connected, status>>
    /\ DeviceDelivery

----------------------------------------------------------------------------
(* Command: src/command.py *)

command_id == "move"
device_id == "dev1"

ParamNames == {"value", "speed"}
TypeNames == {"int", "float"}

\* A Python value: its runtime type and, for a number, twice its value
\* (so that 1.5 is 3); a str has no number.
IntV(n) == [type |-> "int", twice |-> 2 * n]
FloatHalves(h) == [type |-> "float", twice |-> h]
BoolTrue == [type |-> "bool", twice |-> 2]
StrV == [type |-> "str", twice |-> 0]
Values == {IntV(1), FloatHalves(3), BoolTrue, StrV}

\* The declared ranges: (0, 1).
Ranges == {<<0, 2>>}

\* A dict in insertion order: a sequence of items with distinct keys.
Keys(d) == {d[i].name : i \in 1..Len(d)}
IsDict(d) == \A i, j \in 1..Len(d) : d[i].name = d[j].name => i = j
Dicts == {d \in UNION {[1..n -> [name : ParamNames, value : Values]] : n \in 0..Cardinality(ParamNames)} :
             IsDict(d)}
NameLists == {l \in UNION {[1..n -> ParamNames] : n \in 0..Cardinality(ParamNames)} :
                 \A i, j \in 1..Len(l) : l[i] = l[j] => i = j}
Maps(V) == UNION {[D -> V] : D \in SUBSET ParamNames}

\* The smallest index at which flags is true, 0 when there is none: the place
\* where a for loop with a return under an if stops (flags[i] is the if's
\* test at the i-th element).
First(flags) ==
    IF \E i \in 1..Len(flags) : flags[i]
    THEN CHOOSE i \in 1..Len(flags) : flags[i] /\ \A j \in 1..(i - 1) : ~flags[j]
    ELSE 0

\* isinstance(value, expected_type): bool is a subclass of int.
IsInstance(v, t) == v.type = t \/ (v.type = "bool" /\ t = "int")

\* min_val <= value <= max_val is defined between numbers only.
Orderable(v) == v.type \in {"int", "float", "bool"}
InRange(v, r) == r[1] <= v.twice /\ v.twice <= r[2]

Missing(params, name) == name \notin Keys(params)
TypeMismatch(item) ==
    /\ item.name \in DOMAIN parameter_types
    /\ ~IsInstance(item.value, parameter_types[item.name])
\* An item at which the range loop stops: with a TypeError or with a failure.
RangeStop(item) ==
    /\ item.name \in DOMAIN parameter_ranges
    /\ (~Orderable(item.value) \/ ~InRange(item.value, parameter_ranges[item.name]))

Returned(ok, message) == [kind |-> "return", ok |-> ok, message |-> message]
Raised(error) == [kind |-> "raise", error |-> error]

RequiredPhase(params) ==
    LET i == First([n \in 1..Len(required_parameters) |->
                       Missing(params, required_parameters[n])])
    IN IF i = 0 THEN Returned(TRUE, <<>>)
       ELSE Returned(FALSE, <<"Missing required parameter", required_parameters[i]>>)

TypePhase(params) ==
    LET j == First([n \in 1..Len(params) |-> TypeMismatch(params[n])])
    IN IF j = 0 THEN Returned(TRUE, <<>>)
       ELSE Returned(FALSE, <<"Invalid type for parameter", params[j].name,
                              parameter_types[params[j].name]>>)

RangePhase(params) ==
    LET k == First([n \in 1..Len(params) |-> RangeStop(params[n])])
    IN IF k = 0 THEN Returned(TRUE, <<>>)
       ELSE IF ~Orderable(params[k].value) THEN Raised("TypeError")
       ELSE Returned(FALSE, <<"Parameter out of range", params[k].name,
                              parameter_ranges[params[k].name], params[k].value>>)

validate_parameters(params) ==
    LET required == RequiredPhase(params)
        types == TypePhase(params)
        ranges == RangePhase(params)
    IN IF ~required.ok THEN required
       ELSE IF ~types.ok THEN types
       ELSE IF ranges.kind = "raise" \/ ~ranges.ok THEN ranges
       ELSE Returned(TRUE, <<"Parameters valid">>)

retry_delay == 1

\* The Command as constructed.
CommandInit ==
    /\ command_observers = <<>>
    /\ required_parameters = <<>>
    /\ parameter_types = <<>>
    /\ parameter_ranges = <<>>
    /\ retry_count = 3

\* The Command once its caller has declared its contract and policy (public
\* attributes, set after construction).
CommandDeclared ==
    /\ required_parameters \in NameLists
    /\ parameter_types \in Maps(TypeNames)
    /\ parameter_ranges \in Maps(Ranges)
    /\ retry_count \in 0..MaxRetry

CommandNote(st, result) == [event |-> "command_executed", status |-> st, result |-> result]

\* The deliveries of the notifications of a Command method.
CommandDelivery ==
    LET r == Notifications(command_observers, Len(notes'), <<>>)
    IN /\ command_observers' = r.observers
       /\ delivered' = r.delivered
       /\ UNCHANGED <<device_observers, mode_observers>>

\* The call validate_parameters(params).
validate(params) ==
    /\ Idle
    /\ call' = [op |-> "validate_parameters", params |-> params,
                ret |-> validate_parameters(params)]
    /\ notes' = <<>>
    /\ UNCHANGED <<devVars, cmdVars, modeVars>>
    /\ Quiet

\* A success payload that reports the 0-based loop index.
SuccessResult_ZeroBased(params, attempt) ==
    [command_id |-> command_id, device_id |-> device_id, parameters |-> params,
     timestamp |-> now, attempt |-> attempt]

\* The result payloads of execute.
SuccessResult(params, attempt) ==
    [command_id |-> command_id, device_id |-> device_id, parameters |-> params,
     timestamp |-> now, attempt |-> attempt + 1]
ErrorResult(params, attempt) ==
    [error |-> "fault", command_id |-> command_id, device_id |-> device_id,
     parameters |-> params, timestamp |-> now, attempts |-> attempt + 1]

\* What one pass of the retry loop reports: the returned pair, the
\* notifications, the attempts made of the underlying action and the sleeps.
Outcome(kind, ok, result, ns, tried, delays) ==
    [kind |-> kind, ok |-> ok, result |-> result, notes |-> ns, tried |-> tried,
     delays |-> delays]

\* Whether a faulting attempt (0-based, as in range(retry_count)) is retried.
RetryAfter(attempt) == attempt < retry_count - 1

\* for attempt in range(self.retry_count): ...
RECURSIVE RetryLoop(_, _, _, _)
RetryLoop(params, outs, attempt, delays) ==
    IF attempt >= retry_count
    THEN \* the loop ends without a return: execute returns None
         Outcome("return_none", FALSE, None, <<>>, attempt, delays)
    ELSE IF outs[attempt + 1]
    THEN Outcome("return", TRUE, SuccessResult(params, attempt),
                 <<CommandNote("success", SuccessResult(params, attempt))>>,
                 attempt + 1, delays)
    ELSE IF RetryAfter(attempt)
    THEN RetryLoop(params, outs, attempt + 1, delays + 1)
    ELSE Outcome("return", FALSE, ErrorResult(params, attempt),
                 <<CommandNote("error", ErrorResult(params, attempt))>>,
                 attempt + 1, delays)

\* An execute that notifies the validation error and goes on to the retry loop.
Execute_NoEarlyReturn(params, outs) ==
    LET v == validate_parameters(params)
        l == RetryLoop(params, outs, 0, 0)
    IN IF v.kind = "raise"
       THEN Outcome("raise", FALSE, v.error, <<>>, 0, 0)
       ELSE IF ~v.ok
       THEN Outcome(l.kind, l.ok, l.result,
                    <<CommandNote("validation_error", [error |-> v.message])>> \o l.notes,
                    l.tried, l.delays)
       ELSE l

\* An execute that runs only a command that the mode allows.
Execute_IfAllowed(params, outs) ==
    LET v == validate_parameters(params)
    IN IF \A i \in 1..Len(allowed_commands) : allowed_commands[i] # command_id
       THEN Outcome("return", FALSE, [error |-> "not allowed"],
                    <<CommandNote("error", [error |-> "not allowed"])>>, 0, 0)
       ELSE IF v.kind = "raise"
       THEN Outcome("raise", FALSE, v.error, <<>>, 0, 0)
       ELSE IF ~v.ok
       THEN Outcome("return", FALSE, [error |-> v.message],
                    <<CommandNote("validation_error", [error |-> v.message])>>, 0, 0)
       ELSE RetryLoop(params, outs, 0, 0)

\* execute(device, params), whole: validation, then the retry loop.
Execute(params, outs) ==
    LET v == validate_parameters(params)
    IN IF v.kind = "raise"
       THEN Outcome("raise", FALSE, v.error, <<>>, 0, 0)
       ELSE IF ~v.ok
       THEN Outcome("return", FALSE, [error |-> v.message],
                    <<CommandNote("validation_error", [error |-> v.message])>>, 0, 0)
       ELSE RetryLoop(params, outs, 0, 0)

\* An execute that uses up the retries it has made.
execute_SpendsRetries(params, outs) ==
    /\ Idle
    /\ LET r == Execute(params, outs)
       IN /\ call' = [op |-> "execute", params |-> params,
                      valid |-> validate_parameters(params),
                      ret |-> [kind |-> r.kind, ok |-> r.ok, result |-> r.result],
                      outcomes |-> [i \in 1..r.tried |-> outs[i]],
                      tried |-> r.tried, delays |-> r.delays]
          /\ notes' = r.notes
          /\ retry_count' = IF r.tried > 1 THEN retry_count - 1 ELSE retry_count
    /\ UNCHANGED <<devVars, modeVars>>
    /\ UNCHANGED <<required_parameters, parameter_types, parameter_ranges>>
    /\ CommandDelivery

execute(params, outs) ==
    /\ Idle
    /\ LET r == Execute(params, outs)
       IN /\ call' = [op |-> "execute", params |-> params,
                      valid |-> validate_parameters(params),
                      ret |-> [kind |-> r.kind, ok |-> r.ok, result |-> r.result],
                      outcomes |-> [i \in 1..r.tried |-> outs[i]],
                      tried |-> r.tried, delays |-> r.delays]
          /\ notes' = r.notes
    /\ UNCHANGED <<devVars, cmdVars, modeVars>>
    /\ CommandDelivery

----------------------------------------------------------------------------
(* Mode: src/mode.py *)

States == {"initial", "armed"}
VarNames == {"safety_off", "ready"}
VarValues == BOOLEAN
\* The values that the declared conditions require.
RequiredValues == {TRUE}

\* The conditions of a transition: a dict in insertion order.
Conditions == {c \in UNION {[1..n -> [name : VarNames, value : RequiredValues]] :
                               n \in 0..Cardinality(VarNames)} : IsDict(c)}

mode_id == "mode1"
mode_name == "Mode 1"

ModeInit ==
    /\ mode_observers = <<>>
    /\ allowed_commands = <<>>
    /\ required_commands = <<>>
    /\ state_variables = <<>>
    /\ transitions = <<>>
    /\ current_state = "initial"
    /\ history = <<>>

\* The fields that the methods of Mode assign, as an observer reads them.
ModeFields ==
    [current_state |-> current_state, history |-> history,
     state_variables |-> state_variables]

\* notify_observers(event, data): one on_mode_state_changed(self, event, data)
\* delivery. It is the statement that follows the assignments of its branch,
\* so the observer reads the mode as the method leaves it.
ModeNote(event, data) == [event |-> event, data |-> data, mode |-> ModeFields']

\* The deliveries of the notifications of a Mode method.
ModeDelivery ==
    LET r == Notifications(mode_observers, Len(notes'), <<>>)
    IN /\ mode_observers' = r.observers
       /\ delivered' = r.delivered
       /\ UNCHANGED <<device_observers, command_observers>>

\* Command identifiers passed to add_command, remove_command and
\* is_command_allowed.
ModeCommandIds == {"move", "stop", "home"}

\* An add_command that makes an allowed command required when asked again.
add_command_Promotes(command, required) ==
    /\ Idle
    /\ IF \E i \in 1..Len(allowed_commands) : allowed_commands[i] = command
       THEN /\ UNCHANGED allowed_commands
            /\ required_commands' =
                  IF required /\ ~\E i \in 1..Len(required_commands) :
                                     required_commands[i] = command
                  THEN Append(required_commands, command)
                  ELSE required_commands
       ELSE /\ allowed_commands' = Append(allowed_commands, command)
            /\ required_commands' = IF required THEN Append(required_commands, command)
                                    ELSE required_commands
    /\ UNCHANGED <<state_variables, transitions, current_state, history>>
    /\ UNCHANGED <<devVars, cmdVars>>
    /\ call' = [op |-> "add_command", ret |-> None, command |-> command,
                required |-> required]
    /\ notes' = <<>>
    /\ Quiet

\* An add_command without the membership test.
add_command_Unchecked(command, required) ==
    /\ Idle
    /\ allowed_commands' = Append(allowed_commands, command)
    /\ required_commands' = IF required THEN Append(required_commands, command)
                            ELSE required_commands
    /\ UNCHANGED <<state_variables, transitions, current_state, history>>
    /\ UNCHANGED <<devVars, cmdVars>>
    /\ call' = [op |-> "add_command", ret |-> None, command |-> command,
                required |-> required]
    /\ notes' = <<>>
    /\ Quiet

add_command(command, required) ==
    /\ Idle
    /\ IF \E i \in 1..Len(allowed_commands) : allowed_commands[i] = command
       THEN UNCHANGED <<allowed_commands, required_commands>>
       ELSE /\ allowed_commands' = Append(allowed_commands, command)
            /\ required_commands' = IF required THEN Append(required_commands, command)
                                    ELSE required_commands
    /\ UNCHANGED <<state_variables, transitions, current_state, history>>
    /\ UNCHANGED <<devVars, cmdVars>>
    /\ call' = [op |-> "add_command", ret |-> None, command |-> command,
                required |-> required]
    /\ notes' = <<>>
    /\ Quiet

\* list.remove(x), guarded by `if x in list`.
RemoveFrom(list, x) ==
    IF \E i \in 1..Len(list) : list[i] = x
    THEN LET k == CHOOSE i \in 1..Len(list) :
                      /\ list[i] = x
                      /\ \A j \in 1..(i - 1) : list[j] # x
         IN SubSeq(list, 1, k - 1) \o SubSeq(list, k + 1, Len(list))
    ELSE list

\* A remove_command that leaves required_commands alone.
remove_command_KeepsRequired(command) ==
    /\ Idle
    /\ allowed_commands' = RemoveFrom(allowed_commands, command)
    /\ UNCHANGED <<required_commands, state_variables, transitions, current_state, history>>
    /\ UNCHANGED <<devVars, cmdVars>>
    /\ call' = [op |-> "remove_command", ret |-> None, command |-> command]
    /\ notes' = <<>>
    /\ Quiet

remove_command(command) ==
    /\ Idle
    /\ allowed_commands' = RemoveFrom(allowed_commands, command)
    /\ required_commands' = RemoveFrom(required_commands, command)
    /\ UNCHANGED <<state_variables, transitions, current_state, history>>
    /\ UNCHANGED <<devVars, cmdVars>>
    /\ call' = [op |-> "remove_command", ret |-> None, command |-> command]
    /\ notes' = <<>>
    /\ Quiet

is_command_allowed(command) ==
    /\ Idle
    /\ call' = [op |-> "is_command_allowed", command |-> command,
                ret |-> \E i \in 1..Len(allowed_commands) : allowed_commands[i] = command]
    /\ notes' = <<>>
    /\ UNCHANGED <<devVars, cmdVars, modeVars>>
    /\ Quiet

\* The number of declared candidates, over all from_states.
RECURSIVE Declared(_)
Declared(froms) ==
    IF froms = {} THEN 0
    ELSE LET f == CHOOSE x \in froms : TRUE
         IN Len(transitions[f]) + Declared(froms \ {f})

add_transition(from_state, to_state, conditions) ==
    /\ Idle
    /\ Declared(DOMAIN transitions) < MaxTransitions
    /\ transitions' =
          [f \in DOMAIN transitions \cup {from_state} |->
              IF f = from_state
              THEN Append(IF f \in DOMAIN transitions THEN transitions[f] ELSE <<>>,
                          [to_state |-> to_state, conditions |-> conditions])
              ELSE transitions[f]]
    /\ call' = [op |-> "add_transition", ret |-> None, from_state |-> from_state,
                to_state |-> to_state, conditions |-> conditions]
    /\ notes' = <<>>
    /\ UNCHANGED <<allowed_commands, required_commands, state_variables, current_state,
                   history>>
    /\ UNCHANGED <<devVars, cmdVars>>
    /\ Quiet

\* A condition at which the loop over conditions.items() returns False.
ConditionFails(item) ==
    /\ item.name \in DOMAIN state_variables
    /\ state_variables[item.name] # item.value

\* The conditions of one candidate, checked in order.
CheckConditions(conditions) ==
    LET i == First([n \in 1..Len(conditions) |-> ConditionFails(conditions[n])])
    IN IF i = 0 THEN Returned(TRUE, <<"Transition allowed">>)
       ELSE Returned(FALSE, <<"Condition not met", conditions[i].name, conditions[i].value>>)

\* A best-match policy: any candidate to to_state whose conditions hold.
can_transition_to_BestMatch(to_state) ==
    IF current_state \notin DOMAIN transitions
    THEN Returned(FALSE, <<"No transitions defined from state", current_state>>)
    ELSE LET cs == transitions[current_state]
             k == First([n \in 1..Len(cs) |-> cs[n].to_state = to_state])
             b == First([n \in 1..Len(cs) |->
                            /\ cs[n].to_state = to_state
                            /\ CheckConditions(cs[n].conditions).ok])
         IN IF k = 0
            THEN Returned(FALSE, <<"No transition defined to state", to_state>>)
            ELSE IF b # 0
            THEN Returned(TRUE, <<"Transition allowed">>)
            ELSE CheckConditions(cs[k].conditions)

can_transition_to(to_state) ==
    IF current_state \notin DOMAIN transitions
    THEN Returned(FALSE, <<"No transitions defined from state", current_state>>)
    ELSE LET cs == transitions[current_state]
             k == First([n \in 1..Len(cs) |-> cs[n].to_state = to_state])
         IN IF k = 0
            THEN Returned(FALSE, <<"No transition defined to state", to_state>>)
            ELSE CheckConditions(transitions[current_state][k].conditions)

\* An entry with its two states exchanged.
HistoryEntry_Reversed(to_state) ==
    [from_state |-> to_state, to_state |-> current_state, timestamp |-> now]

\* An entry built after current_state is updated.
HistoryEntry_AfterUpdate(to_state) ==
    [from_state |-> to_state, to_state |-> to_state, timestamp |-> now]

\* The entry that transition_to appends, built before current_state is updated.
HistoryEntry(to_state) ==
    [from_state |-> current_state, to_state |-> to_state, timestamp |-> now]

\* The call can_transition_to(to_state).
query_transition(to_state) ==
    /\ Idle
    /\ call' = [op |-> "can_transition_to", to_state |-> to_state,
                ret |-> can_transition_to(to_state)]
    /\ notes' = <<>>
    /\ UNCHANGED <<devVars, cmdVars, modeVars>>
    /\ Quiet

\* A transition that does not ask can_transition_to.
transition_to_Unchecked(to_state) ==
    /\ Idle
    /\ UNCHANGED <<allowed_commands, required_commands, state_variables, transitions>>
    /\ UNCHANGED <<devVars, cmdVars>>
    /\ Len(history) < MaxModeHistory
    /\ history' = Append(history, HistoryEntry(to_state))
    /\ current_state' = to_state
    /\ call' = [op |-> "transition_to", to_state |-> to_state, ret |-> TRUE,
                from_state |-> current_state]
    /\ notes' = <<ModeNote("state_changed",
                           [from_state |-> current_state', to_state |-> to_state])>>
    /\ ModeDelivery

\* A transition that starts the new state with no variables.
transition_to_ResetsVariables(to_state) ==
    /\ Idle
    /\ UNCHANGED <<allowed_commands, required_commands, transitions>>
    /\ UNCHANGED <<devVars, cmdVars>>
    /\ LET r == can_transition_to(to_state)
       IN IF ~r.ok
          THEN /\ UNCHANGED <<current_state, history, state_variables>>
               /\ call' = [op |-> "transition_to", to_state |-> to_state, ret |-> FALSE,
                           from_state |-> current_state]
               /\ notes' = <<ModeNote("transition_failed", [message |-> r.message])>>
          ELSE /\ Len(history) < MaxModeHistory
               /\ history' = Append(history, HistoryEntry(to_state))
               /\ current_state' = to_state
               /\ state_variables' = <<>>
               /\ call' = [op |-> "transition_to", to_state |-> to_state, ret |-> TRUE,
                           from_state |-> current_state]
               \* the payload is built after current_state is updated
               /\ notes' = <<ModeNote("state_changed",
                                      [from_state |-> current_state', to_state |-> to_state])>>
    /\ ModeDelivery

transition_to(to_state) ==
    /\ Idle
    /\ UNCHANGED <<allowed_commands, required_commands, state_variables, transitions>>
    /\ UNCHANGED <<devVars, cmdVars>>
    /\ LET r == can_transition_to(to_state)
       IN IF ~r.ok
          THEN /\ UNCHANGED <<current_state, history>>
               /\ call' = [op |-> "transition_to", to_state |-> to_state, ret |-> FALSE,
                           from_state |-> current_state]
               /\ notes' = <<ModeNote("transition_failed", [message |-> r.message])>>
          ELSE /\ Len(history) < MaxModeHistory
               /\ history' = Append(history, HistoryEntry(to_state))
               /\ current_state' = to_state
               /\ call' = [op |-> "transition_to", to_state |-> to_state, ret |-> TRUE,
                           from_state |-> current_state]
               \* the payload is built after current_state is updated
               /\ notes' = <<ModeNote("state_changed",
                                      [from_state |-> current_state', to_state |-> to_state])>>
    /\ ModeDelivery

\* A set that keeps the value of a variable that is already set.
set_state_variable_OnlyNew(name, value) ==
    /\ Idle
    /\ state_variables' = [n \in DOMAIN state_variables \cup {name} |->
                             IF n \in DOMAIN state_variables THEN state_variables[n]
                             ELSE value]
    /\ UNCHANGED <<allowed_commands, required_commands, transitions, current_state,
                   history>>
    /\ UNCHANGED <<devVars, cmdVars>>
    /\ call' = [op |-> "set_state_variable", ret |-> None, name |-> name, value |-> value]
    /\ notes' = <<ModeNote("variable_changed", [name |-> name, value |-> value])>>
    /\ ModeDelivery

set_state_variable(name, value) ==
    /\ Idle
    /\ state_variables' = [n \in DOMAIN state_variables \cup {name} |->
                             IF n = name THEN value ELSE state_variables[n]]
    /\ UNCHANGED <<allowed_commands, required_commands, transitions, current_state,
                   history>>
    /\ UNCHANGED <<devVars, cmdVars>>
    /\ call' = [op |-> "set_state_variable", ret |-> None, name |-> name, value |-> value]
    /\ notes' = <<ModeNote("variable_changed", [name |-> name, value |-> value])>>
    /\ ModeDelivery

\* get_current_state_info(): the returned dictionary.
get_current_state_info ==
    [mode_id |-> mode_id, name |-> mode_name, current_state |-> current_state,
     state_variables |-> state_variables, allowed_commands |-> allowed_commands,
     required_commands |-> required_commands]

----------------------------------------------------------------------------
(* Specifications *)

\* The caller takes the result of the call it made.
Return ==
    /\ ~Idle
    /\ call' = NoCall
    /\ notes' = <<>>
    /\ UNCHANGED <<devVars, cmdVars, modeVars>>
    /\ Quiet

Init ==
    /\ DeviceInit
    /\ CommandInit
    /\ ModeInit
    /\ call = NoCall
    /\ notes = <<>>
    /\ delivered = <<>>

DeviceNext ==
    \/ Tick
    \/ \E m \in KnownModeIds : register_mode(m)
    \/ \E ok \in BOOLEAN : connect(ok)
    \/ disconnect
    \/ \E c \in CommandIds, p \in ParamSets, ok \in BOOLEAN : send_command(c, p, ok)
    \/ \E m \in ModeIds : set_mode(m)
    \/ update_heartbeat
    \/ check_connection
    \/ Return

SpecDevice == Init /\ [][DeviceNext]_vars

\* The outcomes of the attempts of one execute call: attempt i succeeds iff
\* outs[i]. Attempts after the first success are never made, so the outcomes
\* that can be told apart are "the first f attempts fault".
Outcomes == {[i \in 1..retry_count |-> i > f] : f \in 0..retry_count}

\* A call is made when none is in progress: the guard of validate and of
\* execute, tested here before their arguments are drawn.
CommandNext ==
    \/ Idle /\ \E p \in Dicts : validate(p)
    \/ Idle /\ \E p \in Dicts, outs \in Outcomes : execute(p, outs)
    \/ Return

ModeNext ==
    \/ \E f \in States, t \in States, c \in Conditions : add_transition(f, t, c)
    \/ \E t \in States : query_transition(t)
    \/ \E t \in States : transition_to(t)
    \/ \E n \in VarNames, v \in VarValues : set_state_variable(n, v)
    \/ Return

SpecMode == Init /\ [][ModeNext]_vars

\* The commands of a Mode.
ModeCommandsNext ==
    \/ \E c \in ModeCommandIds, r \in BOOLEAN : add_command(c, r)
    \/ \E c \in ModeCommandIds : remove_command(c)
    \/ \E c \in ModeCommandIds : is_command_allowed(c)
    \/ Return

SpecModeCommands == Init /\ [][ModeCommandsNext]_vars

\* Device and Mode share no field and neither calls the other: the two
\* emitters are exercised one at a time.
EmittersNext ==
    \/ ModeInit /\ DeviceNext
    \/ DeviceInit /\ ModeNext

SpecEmitters == Init /\ [][EmittersNext]_vars

\* The three emitters with observers that subscribe and unsubscribe, one
\* emitter at a time (they share no field). Commands are sent without
\* parameters and transitions are declared without conditions: the
\* notifications do not depend on either.
DeviceObserved ==
    \/ Tick
    \/ \E m \in KnownModeIds : register_mode(m)
    \/ \E ok \in BOOLEAN : connect(ok)
    \/ disconnect
    \/ \E c \in CommandIds, ok \in BOOLEAN : send_command(c, None, ok)
    \/ \E m \in ModeIds : set_mode(m)
    \/ update_heartbeat
    \/ check_connection
    \/ Return
    \/ \E o \in Observers : Device_add_observer(o)
    \/ \E o \in Observers : Device_remove_observer(o)

CommandObserved ==
    \/ CommandNext
    \/ \E o \in Observers : Command_add_observer(o)
    \/ \E o \in Observers : Command_remove_observer(o)

ModeObserved ==
    \/ \E f \in States, t \in States : add_transition(f, t, <<>>)
    \/ \E t \in States : transition_to(t)
    \/ \E n \in VarNames, v \in VarValues : set_state_variable(n, v)
    \/ Return
    \/ \E o \in Observers : Mode_add_observer(o)
    \/ \E o \in Observers : Mode_remove_observer(o)

ObserversNext ==
    \/ CommandInit /\ ModeInit /\ DeviceObserved
    \/ DeviceInit /\ ModeInit /\ CommandObserved
    \/ DeviceInit /\ CommandInit /\ ModeObserved

SpecObservers == Init /\ [][ObserversNext]_vars

InitCommand ==
    /\ DeviceInit
    /\ command_observers = <<>>
    /\ CommandDeclared
    /\ ModeInit
    /\ call = NoCall
    /\ notes = <<>>
    /\ delivered = <<>>

SpecCommand == InitCommand /\ [][CommandNext]_vars

\* A Command that declares its required parameters and its retry policy,
\* executed while a Mode allows and disallows it and changes state.
InitLegality ==
    /\ DeviceInit
    /\ command_observers = <<>>
    /\ required_parameters \in NameLists
    /\ parameter_types = <<>>
    /\ parameter_ranges = <<>>
    /\ retry_count \in 0..MaxRetry
    /\ ModeInit
    /\ call = NoCall
    /\ notes = <<>>
    /\ delivered = <<>>

LegalityNext ==
    \/ Idle /\ \E p \in Dicts, outs \in Outcomes : execute(p, outs)
    \/ \E r \in BOOLEAN : add_command(command_id, r)
    \/ remove_command(command_id)
    \/ add_transition("initial", "armed", <<>>)
    \/ transition_to("armed")
    \/ Return

SpecLegality == InitLegality /\ [][LegalityNext]_vars

----------------------------------------------------------------------------
(* MainWindow: src/ui/main_window.py *)

\* The state after MainWindow.__init__: one Device, the Commands and the
\* Modes as their constructors leave them, the window subscribed to each
\* (lines 102-106), and the heartbeat timer started (lines 111-114). The
\* Commands share no field, and neither do the Modes; the model keeps one
\* of each.
InitWindow ==
    /\ device_observers = add_observer(<<>>, "ui")
    /\ is_connected = FALSE
    /\ current_mode = None
    /\ available_modes = <<>>
    /\ command_history = <<>>
    /\ last_command_time = NoTime
    /\ status = "disconnected"
    /\ error_count = 0
    /\ last_error = None
    /\ connection_attempts = 0
    /\ last_heartbeat = NoTime
    /\ now = 0
    /\ command_observers = add_observer(<<>>, "ui")
    /\ required_parameters = <<>>
    /\ parameter_types = <<>>
    /\ parameter_ranges = <<>>
    /\ retry_count = 3
    /\ mode_observers = add_observer(<<>>, "ui")
    /\ allowed_commands = <<>>
    /\ required_commands = <<>>
    /\ state_variables = <<>>
    /\ transitions = <<>>
    /\ current_state = "initial"
    /\ history = <<>>
    /\ call = NoCall
    /\ notes = <<>>
    /\ delivered = <<>>

\* The Connect button. int(self.udp_port.text()) raises ValueError on a port
\* field that holds no number (~port_ok): the handler logs it and
\* device.connect() is not reached.
connect_device(port_ok, ok) ==
    IF port_ok THEN connect(ok)
    ELSE Idle /\ UNCHANGED vars

\* The Disconnect button.
disconnect_device == disconnect

\* A timer handler that feeds the heartbeat.
check_device_heartbeat_FeedsHeartbeat == update_heartbeat

\* The handler of the heartbeat timer, which fires every second: it calls
\* device.check_connection() and sets labels from what the device holds.
check_device_heartbeat == check_connection

\* The axis buttons: commands[...].execute(self.device, {"value": 1.0}).
control_axis(outs) == execute(<<[name |-> "value", value |-> FloatHalves(2)]>>, outs)

\* The Reset and Calibrate buttons: commands[...].execute(self.device), whose
\* params default to None and are read as {}.
reset_position(outs) == execute(<<>>, outs)

WindowNext ==
    \/ Tick
    \/ \E port_ok \in BOOLEAN, ok \in BOOLEAN : connect_device(port_ok, ok)
    \/ disconnect_device
    \/ check_device_heartbeat
    \/ Idle /\ \E outs \in Outcomes : control_axis(outs)
    \/ Idle /\ \E outs \in Outcomes : reset_position(outs)
    \/ Return

SpecWindow == InitWindow /\ [][WindowNext]_vars

----------------------------------------------------------------------------
(* Properties *)

IsCall(op) == call.op = op
\* The step that makes the call op.
Calls(op) == Idle /\ call'.op = op

\* C1: Device.send_command is gated by is_connected and by nothing else: the
\* call returns false with status "not_connected" and command_history
\* unchanged iff is_connected is false; a connected device never has its call
\* rejected (whatever its status, mode, attempts or heartbeat): the call is
\* either sent or reports the transport's fault.
C1_SendCommandGate ==
    [][Calls("send_command") =>
         /\ (/\ call'.ret = FALSE
             /\ status' = "not_connected"
             /\ command_history' = command_history) <=> ~is_connected
         /\ is_connected => status' \in {"command_sent", "command_error"}
         /\ is_connected /\ call'.ret = TRUE =>
               /\ status' = "command_sent"
               /\ Len(command_history') = Len(command_history) + 1]_vars

\* A connected device whose heartbeat is stale, whose status is not
\* "connected" and which has no mode has had a command accepted.
C1_Witness ==
    /\ IsCall("send_command")
    /\ call.ret = TRUE
    /\ is_connected
    /\ now - last_heartbeat[1] > heartbeat_interval
    /\ current_mode = None
    /\ error_count > 0

\* The three kinds of violation of a parameter set P.
MissingNames(P) == {i \in 1..Len(required_parameters) : required_parameters[i] \notin Keys(P)}
Mismatches(P) ==
    {i \in 1..Len(P) : /\ P[i].name \in DOMAIN parameter_types
                       /\ ~IsInstance(P[i].value, parameter_types[P[i].name])}
RangeViolations(P) ==
    {i \in 1..Len(P) : /\ P[i].name \in DOMAIN parameter_ranges
                       /\ Orderable(P[i].value)
                       /\ ~InRange(P[i].value, parameter_ranges[P[i].name])}
Min(S) == CHOOSE x \in S : \A y \in S : x <= y

\* C2: validate_parameters(P) returns false iff P is missing a required key,
\* or a supplied parameter mismatches its declared type, or a supplied
\* parameter violates its declared inclusive range; the message is that of
\* the first violated phase (required, then type, then range), and in the
\* required phase that of the first missing parameter in declaration order.
C2_ValidateIff ==
    IsCall("validate_parameters") =>
        LET P == call.params
            r == call.ret
        IN /\ (r.kind = "return" /\ ~r.ok) <=>
                 (MissingNames(P) # {} \/ Mismatches(P) # {} \/ RangeViolations(P) # {})
           /\ MissingNames(P) # {} =>
                 r = Returned(FALSE, <<"Missing required parameter",
                                       required_parameters[Min(MissingNames(P))]>>)
           /\ MissingNames(P) = {} /\ Mismatches(P) # {} =>
                 /\ r.kind = "return" /\ ~r.ok
                 /\ r.message[1] = "Invalid type for parameter"
           /\ MissingNames(P) = {} /\ Mismatches(P) = {} /\ RangeViolations(P) # {} =>
                 /\ r.kind = "return" /\ ~r.ok
                 /\ r.message[1] = "Parameter out of range"

\* C3: when validate_parameters fails, execute performs the underlying action
\* zero times, with no retry and no delay, notifies once with status
\* "validation_error", returns (false, {error: message}) and leaves the
\* device (its command_history) as it was.
C3_NoActionOnInvalid ==
    [][Calls("execute") /\ call'.valid.kind = "return" /\ ~call'.valid.ok =>
         /\ call'.tried = 0
         /\ call'.delays = 0
         /\ notes' = <<CommandNote("validation_error", [error |-> call'.valid.message])>>
         /\ call'.ret = [kind |-> "return", ok |-> FALSE,
                         result |-> [error |-> call'.valid.message]]
         /\ command_history' = command_history
         /\ UNCHANGED devVars]_vars

\* required ["value"], range (0, 1), params {value: 1.5}: out of range.
C3_Witness ==
    /\ IsCall("execute")
    /\ required_parameters = <<"value">>
    /\ parameter_ranges = [n \in {"value"} |-> <<0, 2>>]
    /\ call.params = <<[name |-> "value", value |-> FloatHalves(3)]>>
    /\ call.ret.kind = "return" /\ ~call.ret.ok
    /\ call.ret.result.error[1] = "Parameter out of range"
    /\ retry_count > 0
    /\ Len(notes) = 1

\* The first attempt that succeeds, 0 when every attempt faults.
FirstSuccess(outcomes) ==
    IF \E i \in 1..Len(outcomes) : outcomes[i]
    THEN Min({i \in 1..Len(outcomes) : outcomes[i]})
    ELSE 0

\* C4: for valid parameters and retry_count >= 1, if the first succeeding
\* attempt is attempt k then execute returns true with result.attempt = k and
\* notifies "success" once; if all retry_count attempts fault it returns
\* false with result.attempts = retry_count and notifies "error" once; there
\* is no other notification.
C4_AttemptReported ==
    IsCall("execute") /\ call.valid.kind = "return" /\ call.valid.ok /\ retry_count >= 1 =>
        LET k == FirstSuccess(call.outcomes)
        IN /\ call.ret.kind = "return"
           /\ Len(notes) = 1
           /\ k # 0 =>
                 /\ k \in 1..retry_count
                 /\ call.ret.ok
                 /\ call.ret.result.attempt = k
                 /\ call.tried = k
                 /\ notes[1].status = "success"
           /\ k = 0 =>
                 /\ Len(call.outcomes) = retry_count
                 /\ ~call.ret.ok
                 /\ call.ret.result.attempts = retry_count
                 /\ notes[1].status = "error"

\* A success on a late attempt, after faults.
C4_Witness ==
    /\ IsCall("execute")
    /\ call.valid.ok
    /\ retry_count >= 3
    /\ call.ret.ok
    /\ call.ret.result.attempt = retry_count
    /\ call.delays = retry_count - 1

\* The first candidate from current_state that targets t, 0 when none does.
FirstCandidate(t) ==
    IF current_state \notin DOMAIN transitions THEN 0
    ELSE IF \E i \in 1..Len(transitions[current_state]) :
               transitions[current_state][i].to_state = t
    THEN Min({i \in 1..Len(transitions[current_state]) :
                 transitions[current_state][i].to_state = t})
    ELSE 0
CandidateConditions(t) == transitions[current_state][FirstCandidate(t)].conditions

\* Every condition's variable is present with exactly the required value.
AllPresentAndEqual(conditions) ==
    \A i \in 1..Len(conditions) :
        /\ conditions[i].name \in DOMAIN state_variables
        /\ state_variables[conditions[i].name] = conditions[i].value
\* No condition's variable is present with another value.
NonePresentAndDifferent(conditions) ==
    \A i \in 1..Len(conditions) :
        conditions[i].name \in DOMAIN state_variables =>
            state_variables[conditions[i].name] = conditions[i].value

\* C5: guard evaluation is conjunctive and by exact equality, and a condition
\* whose variable is absent from state_variables counts as not met:
\* can_transition_to(t) on the matching candidate returns true iff every
\* condition variable is present with exactly the required value.
C5_AbsentVariableNotMet ==
    IsCall("can_transition_to") /\ FirstCandidate(call.to_state) # 0 =>
        (call.ret.ok <=> AllPresentAndEqual(CandidateConditions(call.to_state)))

\* C6: transition_to(t) returns false, leaves current_state and history as
\* they were and notifies "transition_failed" when current_state has no
\* declared transitions, when no candidate targets t, and when the first
\* candidate targeting t has a condition that is not satisfied (its variable
\* absent, or present with another value).
C6_TransitionFails ==
    [][Calls("transition_to") /\
         (\/ current_state \notin DOMAIN transitions
          \/ FirstCandidate(call'.to_state) = 0
          \/ ~AllPresentAndEqual(CandidateConditions(call'.to_state))) =>
         /\ call'.ret = FALSE
         /\ current_state' = current_state
         /\ history' = history
         /\ Len(notes') = 1
         /\ notes'[1].event = "transition_failed"]_vars

\* The transitions of the armed scenario.
ArmedScenario ==
    transitions = [f \in {"initial"} |->
                      <<[to_state |-> "armed",
                         conditions |-> <<[name |-> "safety_off", value |-> TRUE]>>]>>]

\* C7: a successful transition_to(t) appends exactly one entry to history,
\* whose from_state is the current_state before the call and whose to_state
\* is t, sets current_state to t and notifies "state_changed" once; in the
\* armed scenario, once safety_off is set to true, transition_to("armed")
\* from "initial" with an empty history returns true, with current_state
\* "armed" and a history of length 1.
C7_TransitionSucceeds ==
    [][Calls("transition_to") =>
         /\ call'.ret = TRUE =>
               /\ Len(history') = Len(history) + 1
               /\ SubSeq(history', 1, Len(history)) = history
               /\ history'[Len(history')].from_state = current_state
               /\ history'[Len(history')].to_state = call'.to_state
               /\ current_state' = call'.to_state
               /\ Len(notes') = 1
               /\ notes'[1].event = "state_changed"
         /\ (/\ ArmedScenario
             /\ "safety_off" \in DOMAIN state_variables
             /\ state_variables["safety_off"] = TRUE
             /\ current_state = "initial"
             /\ history = <<>>
             /\ call'.to_state = "armed") =>
               /\ call'.ret = TRUE
               /\ current_state' = "armed"
               /\ Len(history') = 1]_vars

\* The armed scenario, after transition_to("armed") has succeeded.
C7_Witness ==
    /\ IsCall("transition_to")
    /\ call.ret = TRUE
    /\ ArmedScenario
    /\ "safety_off" \in DOMAIN state_variables
    /\ state_variables["safety_off"] = TRUE
    /\ current_state = "armed"
    /\ history = <<[from_state |-> "initial", to_state |-> "armed", timestamp |-> now]>>

\* C8: can_transition_to is first-match: of the candidates declared from
\* current_state, only the first whose to_state is the target is evaluated;
\* when its conditions fail the result is false, even when a later candidate
\* to the same to_state has conditions that all hold.
C8_FirstMatch ==
    IsCall("can_transition_to") /\ FirstCandidate(call.to_state) # 0 =>
        (call.ret.ok <=> NonePresentAndDifferent(CandidateConditions(call.to_state)))

\* The first candidate to the target fails and a later one to the same target
\* would have passed: the answer is false.
C8_Witness ==
    /\ IsCall("can_transition_to")
    /\ FirstCandidate(call.to_state) # 0
    /\ ~call.ret.ok
    /\ \E i \in 1..Len(transitions[current_state]) :
          /\ i > FirstCandidate(call.to_state)
          /\ transitions[current_state][i].to_state = call.to_state
          /\ NonePresentAndDifferent(transitions[current_state][i].conditions)

\* C9: with connection_attempts >= max_connection_attempts, connect() returns
\* false with status "connection_failed" and makes no transport attempt:
\* connection_attempts, is_connected, last_error and last_heartbeat keep
\* their values.
C9_BudgetSpent ==
    [][Calls("connect") /\ connection_attempts >= max_connection_attempts =>
         /\ call'.ret = FALSE
         /\ status' = "connection_failed"
         /\ ~call'.attempted
         /\ UNCHANGED <<connection_attempts, is_connected, last_error, last_heartbeat>>]_vars

C9_Witness ==
    /\ IsCall("connect")
    /\ connection_attempts = max_connection_attempts
    /\ status = "connection_failed"
    /\ call.ret = FALSE
    /\ last_error = "fault"

\* A device on which only failing connect() calls have left a trace, k of
\* them: every field but connection_attempts, last_error and status is as
\* constructed.
OnlyFailedConnects(k) ==
    /\ ~is_connected
    /\ current_mode = None
    /\ available_modes = <<>>
    /\ command_history = <<>>
    /\ last_command_time = NoTime
    /\ error_count = 0
    /\ last_heartbeat = NoTime
    /\ connection_attempts = k

\* C10 as stated: from a new device, after exactly max_connection_attempts
\* connect() calls that all fail, status is "connection_failed" and
\* is_connected is false.
C10_FailedAfterMax ==
    [][Calls("connect") /\ OnlyFailedConnects(max_connection_attempts - 1) /\ ~call'.ret =>
         /\ status' = "connection_failed"
         /\ ~is_connected']_vars

\* C10, amended: after those calls status is "connection_error" (the label
\* of the last failed attempt), is_connected is false and the budget is
\* spent; "connection_failed" is the status of the next call.
C10_ErrorAfterMax ==
    [][Calls("connect") /\ OnlyFailedConnects(max_connection_attempts - 1) /\ ~call'.ret =>
         /\ call'.attempted
         /\ status' = "connection_error"
         /\ ~is_connected'
         /\ connection_attempts' = max_connection_attempts]_vars

C10_Witness ==
    /\ IsCall("connect")
    /\ call.attempted /\ ~call.ret
    /\ OnlyFailedConnects(max_connection_attempts)
    /\ status = "connection_error"

\* C11: a connect() call with budget remaining whose transport attempt
\* succeeds returns true and leaves is_connected true, status "connected",
\* connection_attempts 0 and last_heartbeat the current time, whatever the
\* number of failed attempts before it.
C11_ConnectSucceeds ==
    [][Calls("connect") /\ connection_attempts < max_connection_attempts
          /\ call'.attempted /\ call'.outcome =>
         /\ call'.ret = TRUE
         /\ is_connected' = TRUE
         /\ status' = "connected"
         /\ connection_attempts' = 0
         /\ last_heartbeat' = At(now)]_vars

\* A successful connect after a failed one (no command has failed, so the
\* recorded error is that of a connect).
C11_Witness ==
    /\ IsCall("connect")
    /\ call.ret = TRUE
    /\ error_count = 0 /\ last_error = "fault"
    /\ connection_attempts = 0
    /\ is_connected /\ status = "connected"

\* C12: a connect() call whose transport attempt fails returns false, adds
\* exactly one to connection_attempts, records last_error and sets status
\* "connection_error"; one call counts at most one attempt, and no step
\* other than a connect() call changes the counter (no retry is scheduled).
C12_ConnectFaults ==
    [][/\ Calls("connect") /\ call'.attempted /\ ~call'.outcome =>
            /\ call'.ret = FALSE
            /\ connection_attempts' = connection_attempts + 1
            /\ last_error' = "fault"
            /\ status' = "connection_error"
       /\ Calls("connect") =>
            connection_attempts' \in {0, connection_attempts, connection_attempts + 1}
       /\ ~Calls("connect") =>
            /\ UNCHANGED connection_attempts
            /\ is_connected' => is_connected]_vars

C12_Witness ==
    /\ IsCall("connect")
    /\ call.attempted /\ ~call.outcome
    /\ call.ret = FALSE
    /\ connection_attempts = 2
    /\ status = "connection_error"

\* The state that disconnect() leaves.
Disconnected ==
    /\ is_connected = FALSE
    /\ status = "disconnected"
    /\ current_mode = None

\* C13: disconnect() can be called in every state in which the caller is
\* between calls, returns normally, and leaves is_connected false, status
\* "disconnected" and current_mode null; a second call right after the
\* first leaves the device as the first left it.
C13_DisconnectIdempotent ==
    [][/\ Idle => ENABLED disconnect
       /\ Calls("disconnect") =>
            /\ call'.ret = None
            /\ Disconnected'
            /\ Disconnected => UNCHANGED devVars]_vars

\* A disconnect of a device that was connected, had a mode and sent commands.
C13_Witness ==
    /\ IsCall("disconnect")
    /\ Disconnected
    /\ last_heartbeat # NoTime
    /\ command_history # <<>>
    /\ available_modes # <<>>

\* C14: on a connected device a send_command(c, p) call whose transport
\* call succeeds returns true, appends exactly one entry {command c,
\* params p, timestamp now} at the end of command_history, sets
\* last_command_time to now and status to "command_sent", and leaves
\* is_connected and error_count unchanged.
C14_SendSucceeds ==
    [][Calls("send_command") /\ is_connected /\ call'.outcome =>
         /\ call'.ret = TRUE
         /\ command_history' = Append(command_history,
                [command |-> call'.command, params |-> call'.params, timestamp |-> now])
         /\ last_command_time' = At(now)
         /\ status' = "command_sent"
         /\ UNCHANGED <<is_connected, error_count>>]_vars

\* A second successful command, recorded after the first.
C14_Witness ==
    /\ IsCall("send_command")
    /\ call.ret = TRUE
    /\ Len(command_history) > 1
    /\ command_history[Len(command_history)].params = call.params
    /\ command_history[1].params # call.params
    /\ status = "command_sent"

\* s is an initial part of t.
IsPrefix(s, t) == Len(s) <= Len(t) /\ SubSeq(t, 1, Len(s)) = s

\* C15: command_history is append-only: every step leaves the entries it
\* had, in their order; only a send_command call lengthens it, and by one
\* entry.
C15_HistoryAppendOnly ==
    [][/\ IsPrefix(command_history, command_history')
       /\ command_history' # command_history =>
            /\ Calls("send_command")
            /\ Len(command_history') = Len(command_history) + 1]_vars

\* A disconnect that leaves two recorded commands in place.
C15_Witness ==
    /\ IsCall("disconnect")
    /\ Len(command_history) > 1

\* C16: on a connected device a send_command call whose transport call
\* fails returns false, adds one to error_count, records last_error, sets
\* status "command_error" and leaves is_connected true.
C16_SendFaults ==
    [][Calls("send_command") /\ is_connected /\ ~call'.outcome =>
         /\ call'.ret = FALSE
         /\ error_count' = error_count + 1
         /\ last_error' = "fault"
         /\ status' = "command_error"
         /\ is_connected' = TRUE
         /\ UNCHANGED <<command_history, last_command_time>>]_vars

C16_Witness ==
    /\ IsCall("send_command")
    /\ call.ret = FALSE
    /\ is_connected
    /\ error_count = 1
    /\ status = "command_error"
    /\ last_error = "fault"

\* The modes in available_modes.
Registered == {available_modes[i] : i \in 1..Len(available_modes)}

\* C17: set_mode(m) returns false with status "invalid_mode" and
\* current_mode unchanged exactly when m is not in available_modes;
\* otherwise it returns true with current_mode m and status "mode_changed",
\* whether the device is connected or not.
C17_SetMode ==
    [][Calls("set_mode") =>
         /\ (/\ call'.ret = FALSE
             /\ status' = "invalid_mode"
             /\ current_mode' = current_mode) <=> call'.mode \notin Registered
         /\ call'.mode \in Registered =>
              /\ call'.ret = TRUE
              /\ current_mode' = call'.mode
              /\ status' = "mode_changed"]_vars

\* A mode set on a device that is not connected.
C17_Witness ==
    /\ IsCall("set_mode")
    /\ call.ret = TRUE
    /\ current_mode = call.mode
    /\ status = "mode_changed"
    /\ ~is_connected

\* C18: check_connection() returns false and changes nothing when the
\* device is not connected; when it is connected and now - last_heartbeat
\* exceeds heartbeat_interval (strictly) it sets is_connected false and
\* status "connection_lost" and returns false; when it is connected and
\* now - last_heartbeat is at most the interval it returns true and changes
\* nothing. is_connected falls only in a check_connection or a disconnect
\* call: the passing of time alone never changes it.
C18_CheckConnection ==
    [][/\ Calls("check_connection") =>
            /\ ~is_connected =>
                 /\ call'.ret = FALSE
                 /\ UNCHANGED devVars
                 /\ notes' = <<>>
            /\ is_connected /\ now - last_heartbeat[1] > heartbeat_interval =>
                 /\ call'.ret = FALSE
                 /\ is_connected' = FALSE
                 /\ status' = "connection_lost"
            /\ is_connected /\ now - last_heartbeat[1] <= heartbeat_interval =>
                 /\ call'.ret = TRUE
                 /\ UNCHANGED devVars
                 /\ notes' = <<>>
       /\ is_connected /\ ~is_connected' =>
            Calls("check_connection") \/ Calls("disconnect")]_vars

\* The boundary: a heartbeat exactly heartbeat_interval old is not stale.
C18_Witness ==
    /\ IsCall("check_connection")
    /\ call.ret = TRUE
    /\ is_connected
    /\ now - last_heartbeat[1] = heartbeat_interval

\* C19: update_heartbeat() sets last_heartbeat to now and status to
\* "connected" and changes no other field, in particular not is_connected,
\* connection_attempts or current_mode, connected or not.
C19_UpdateHeartbeat ==
    [][Calls("update_heartbeat") =>
         /\ last_heartbeat' = At(now)
         /\ status' = "connected"
         /\ UNCHANGED <<is_connected, connection_attempts, current_mode, available_modes,
                        command_history, last_command_time, error_count, last_error>>]_vars

\* A heartbeat on a disconnected device: the label says connected, the flag
\* does not.
C19_Witness ==
    /\ IsCall("update_heartbeat")
    /\ ~is_connected
    /\ status = "connected"
    /\ last_heartbeat # NoTime
    /\ connection_attempts > 0

\* C20: an observer of a Device or a Mode is called after the operation's
\* assignments: what it reads during the callback is the emitter as the
\* operation leaves it. During state_changed the mode's current_state is
\* to_state and history ends with the new entry; during a connect
\* notification is_connected, status and connection_attempts are final.
C20_NotifiedAfterCommit ==
    \A i \in DOMAIN notes :
        /\ notes[i].event = "device_state_changed" =>
             /\ notes[i].device = DeviceFields
             /\ notes[i].status = status
             /\ notes[i].is_connected = is_connected
        /\ notes[i].event \in {"state_changed", "transition_failed", "variable_changed"} =>
             notes[i].mode = ModeFields
        /\ notes[i].event = "state_changed" =>
             /\ notes[i].mode.current_state = call.to_state
             /\ notes[i].mode.history # <<>>
             /\ notes[i].mode.history[Len(history)].to_state = call.to_state
             /\ notes[i].mode.history[Len(history)].from_state = call.from_state

\* The notification of a failed connect, read with the counter already
\* advanced.
C20_Witness ==
    /\ IsCall("connect")
    /\ Len(notes) = 1
    /\ call.attempted /\ ~call.outcome
    /\ notes[1].device.connection_attempts = 2
    /\ notes[1].device.status = "connection_error"
    /\ notes[1].device.last_error = "fault"

\* The operations of Device that notify, and those of Mode and Command.
DeviceOps == {"connect", "disconnect", "send_command", "set_mode", "update_heartbeat",
              "check_connection"}
ModeOps == {"transition_to", "set_state_variable"}
CommandOps == {"execute"}

\* The subscriber list of the emitter named e.
ObserversOf(e) ==
    CASE e = "Device" -> device_observers
      [] e = "Command" -> command_observers
      [] e = "Mode" -> mode_observers

\* The same list once the step is taken.
ObserversAfter(e) ==
    CASE e = "Device" -> device_observers'
      [] e = "Command" -> command_observers'
      [] e = "Mode" -> mode_observers'

\* The emitter whose method op is.
EmitterOf(op) ==
    CASE op \in DeviceOps -> "Device"
      [] op \in CommandOps -> "Command"
      [] op \in ModeOps -> "Mode"

\* The elements of a list, and the number of times x occurs in it.
Range(l) == {l[i] : i \in 1..Len(l)}
Count(l, x) == Cardinality({i \in 1..Len(l) : l[i] = x})

\* C21: every state-mutating Device operation (connect, disconnect,
\* send_command, set_mode, update_heartbeat, and a check_connection that
\* drops a stale connection), in each outcome, makes one notification, as its
\* last step, that calls every observer subscribed when the operation is
\* called exactly once, in subscription order.
C21_OneCallEach ==
    [][/\ Idle
       /\ call'.op \in DeviceOps
       /\ call'.op = "check_connection" => is_connected /\ ~is_connected'
       =>
       /\ Len(notes') = 1
       /\ notes'[1].device = DeviceFields'
       /\ delivered' = device_observers]_vars

\* No list holds an observer twice.
NoDuplicates(l) == \A i, j \in 1..Len(l) : l[i] = l[j] => i = j

\* C22: the subscriber lists of Device, Command and Mode never hold an
\* observer twice; add_observer of a subscribed observer leaves the list as
\* it was (the observer keeps its position) and otherwise appends it;
\* remove_observer of an observer that is not subscribed leaves the list as
\* it was and otherwise takes the observer out.
C22_NoDuplicateObservers ==
    /\ NoDuplicates(device_observers)
    /\ NoDuplicates(command_observers)
    /\ NoDuplicates(mode_observers)
    /\ IsCall("add_observer") =>
         ObserversOf(call.on) =
            IF call.observer \in Range(call.before)
            THEN call.before
            ELSE Append(call.before, call.observer)
    /\ IsCall("remove_observer") =>
         /\ ObserversOf(call.on) = SelectSeq(call.before, LAMBDA x : x # call.observer)
         /\ call.observer \notin Range(call.before) => ObserversOf(call.on) = call.before

\* The first of two subscribed observers is added again and stays first.
C22_Witness ==
    /\ IsCall("add_observer")
    /\ call.before = <<"ui", "once">>
    /\ call.observer = "ui"
    /\ ObserversOf(call.on) = <<"ui", "once">>

\* C23: when an observer unsubscribes (itself or another) inside its
\* callback, every observer that was subscribed when the notification
\* started and is still subscribed after it has been called exactly once.
C23_SurvivorsNotified ==
    [][/\ Idle
       /\ call'.op \in DeviceOps \cup ModeOps
       /\ Len(notes') = 1
       =>
       \A o \in Range(ObserversOf(EmitterOf(call'.op))) :
           o \in Range(ObserversAfter(EmitterOf(call'.op))) => Count(delivered', o) = 1]_vars

\* C24: the "state_changed" payload of a successful transition_to reports
\* as from_state the state before the update, the from_state of the history
\* entry that the call appends.
C24_PriorStateReported ==
    IsCall("transition_to") /\ call.ret = TRUE =>
        /\ notes[1].event = "state_changed"
        /\ notes[1].data.from_state = call.from_state
        /\ notes[1].data.from_state = history[Len(history)].from_state

\* C25: transition_to leaves state_variables as they were, whether it
\* succeeds or fails; after a success get_current_state_info() reports the
\* new current_state and the state_variables of before the call.
C25_VariablesKept ==
    [][Calls("transition_to") =>
         /\ state_variables' = state_variables
         /\ call'.ret = TRUE =>
              /\ get_current_state_info'.current_state = call'.to_state
              /\ get_current_state_info'.state_variables = state_variables]_vars

\* A successful transition of a mode that has variables set.
C25_Witness ==
    /\ IsCall("transition_to")
    /\ call.ret = TRUE
    /\ call.from_state # call.to_state
    /\ DOMAIN state_variables = VarNames
    /\ get_current_state_info.current_state = call.to_state

\* C26: execute keeps no state of the call: in every outcome (validation
\* error, success, retries exhausted) no field of the Command (declared
\* parameters, types, ranges, retry_count, observers) and no field of the
\* Device changes; the effects are the notifications and the returned pair.
C26_ExecuteStateless ==
    [][Calls("execute") =>
         /\ UNCHANGED <<required_parameters, parameter_types, parameter_ranges,
                        retry_count, command_observers>>
         /\ UNCHANGED devVars
         /\ UNCHANGED <<device_observers, modeVars>>]_vars

\* Retries exhausted: every attempt of a valid call has faulted.
C26_Witness ==
    /\ IsCall("execute")
    /\ call.valid.kind = "return" /\ call.valid.ok
    /\ retry_count >= 2
    /\ call.tried = retry_count
    /\ ~call.ret.ok
    /\ call.delays = retry_count - 1

\* What execute returns, from the verdict of the validation, the outcomes of
\* the attempts and the retry policy.
ExpectedReturn ==
    LET v == call.valid
        k == FirstSuccess(call.outcomes)
    IN IF v.kind = "raise"
       THEN [kind |-> "raise", ok |-> FALSE, result |-> v.error]
       ELSE IF ~v.ok
       THEN [kind |-> "return", ok |-> FALSE, result |-> [error |-> v.message]]
       ELSE IF retry_count = 0
       THEN [kind |-> "return_none", ok |-> FALSE, result |-> None]
       ELSE IF k # 0
       THEN [kind |-> "return", ok |-> TRUE,
             result |-> [command_id |-> command_id, device_id |-> device_id,
                         parameters |-> call.params, timestamp |-> now, attempt |-> k]]
       ELSE [kind |-> "return", ok |-> FALSE,
             result |-> [error |-> "fault", command_id |-> command_id,
                         device_id |-> device_id, parameters |-> call.params,
                         timestamp |-> now, attempts |-> retry_count]]

\* C27: what execute returns is fixed by its parameters, the outcomes of its
\* attempts and the command's own policy: the ok flag and the result are the
\* same whatever the Mode's allowed_commands and current_state are, also
\* when the mode does not allow the command.
C27_ModeIndependent ==
    IsCall("execute") =>
        /\ call.valid = validate_parameters(call.params)
        /\ call.ret = ExpectedReturn

\* The command succeeds although the mode, which has changed state, does
\* not allow it.
C27_Witness ==
    /\ IsCall("execute")
    /\ call.ret.ok
    /\ command_id \notin Range(allowed_commands)
    /\ current_state = "armed"
    /\ required_parameters # <<>>

\* C28: add_command and remove_command are idempotent: a call repeated
\* right after itself changes nothing, and neither list ever holds a command
\* twice. is_command_allowed(c) returns true iff c has been added and not
\* removed since (c is in allowed_commands: add_command(c) puts it there,
\* remove_command(c) takes it out and no other call moves it), and changes
\* no state.
C28_CommandsIdempotent ==
    [][/\ NoDuplicates(allowed_commands') /\ NoDuplicates(required_commands')
       /\ Calls("add_command") =>
            /\ call'.command \in Range(allowed_commands')
            /\ call'.command \in Range(allowed_commands) =>
                 UNCHANGED <<allowed_commands, required_commands>>
       /\ Calls("remove_command") =>
            /\ call'.command \notin Range(allowed_commands')
            /\ call'.command \notin Range(required_commands')
            /\ call'.command \notin Range(allowed_commands) =>
                 UNCHANGED <<allowed_commands, required_commands>>
       /\ Calls("is_command_allowed") =>
            /\ call'.ret = (call'.command \in Range(allowed_commands))
            /\ UNCHANGED modeVars
       /\ \A c \in ModeCommandIds :
            (c \in Range(allowed_commands)) # (c \in Range(allowed_commands')) =>
                /\ call'.command = c
                /\ Calls("add_command") \/ Calls("remove_command")]_vars

\* add_command(c, required) of a command that is already allowed and not
\* required: nothing changes.
C28_Witness ==
    /\ IsCall("add_command")
    /\ call.required
    /\ call.command \in Range(allowed_commands)
    /\ call.command \notin Range(required_commands)
    /\ Len(allowed_commands) > 1

\* C29: after any sequence of add_command and remove_command calls every
\* required command is an allowed command.
C29_RequiredAllowed == Range(required_commands) \subseteq Range(allowed_commands)

\* A command has been removed while another, required one stays.
C29_Witness ==
    /\ IsCall("remove_command")
    /\ call.command \notin Range(allowed_commands)
    /\ required_commands # <<>>
    /\ Len(allowed_commands) > Len(required_commands)

\* C30: set_state_variable(name, value) can always be called, sets
\* state_variables[name] to value (a new or an existing name), leaves every
\* other variable at its value, notifies "variable_changed" once and leaves
\* current_state, history, transitions and the command lists unchanged.
C30_SetStateVariable ==
    [][/\ Idle => \A n \in VarNames, v \in VarValues : ENABLED set_state_variable(n, v)
       /\ Calls("set_state_variable") =>
            /\ DOMAIN state_variables' = DOMAIN state_variables \cup {call'.name}
            /\ state_variables'[call'.name] = call'.value
            /\ \A n \in DOMAIN state_variables \ {call'.name} :
                   state_variables'[n] = state_variables[n]
            /\ Len(notes') = 1
            /\ notes'[1].event = "variable_changed"
            /\ notes'[1].data = [name |-> call'.name, value |-> call'.value]
            /\ UNCHANGED <<current_state, history, transitions, allowed_commands,
                           required_commands>>]_vars

\* A variable set after a transition, next to another variable.
C30_Witness ==
    /\ IsCall("set_state_variable")
    /\ DOMAIN state_variables = VarNames
    /\ state_variables[call.name] = call.value
    /\ \E n \in VarNames : state_variables[n] # call.value
    /\ history # <<>>


\* The failed attempts of an execute call that are not the last one allowed.
FailedNotLast(c) == {i \in 1..c.tried : ~c.outcomes[i] /\ i < retry_count}

\* C31: with retry_count >= 1, execute ends with an (ok, result) pair after at
\* most retry_count attempts, made one after the other; it waits retry_delay
\* once after each failed attempt that is not the last, and never after a
\* successful attempt or after the final failing attempt.
C31_ExecuteTerminates ==
    IsCall("execute") /\ retry_count >= 1 =>
        /\ call.ret.kind = "return"
        /\ call.ret.ok \in BOOLEAN
        /\ call.tried <= retry_count
        /\ call.delays = retry_delay * Cardinality(FailedNotLast(call))
        /\ call.ret.ok => call.tried >= 1 /\ call.outcomes[call.tried]

\* The supplied values of P that cannot be ordered against a declared range.
CannotBeOrdered(P) ==
    {i \in 1..Len(P) : /\ P[i].name \in DOMAIN parameter_ranges
                       /\ ~Orderable(P[i].value)}

\* C32: no fault escapes validate_parameters or execute: every parameter
\* problem, a supplied value that cannot be ordered against its declared range
\* included, is returned as a (false, message) result and never reaches the
\* caller as an exception.
C32_NoFaultEscapes ==
    /\ IsCall("validate_parameters") =>
          /\ call.ret.kind = "return"
          /\ CannotBeOrdered(call.params) # {} => ~call.ret.ok
    /\ IsCall("execute") =>
          /\ call.ret.kind = "return"
          /\ CannotBeOrdered(call.params) # {} => ~call.ret.ok

\* The calls of C31 in which validation returns: the retry loop is reached or
\* the call returns the validation failure.
C31_WhenValidationReturns ==
    IsCall("execute") /\ retry_count >= 1 /\ call.valid.kind = "return" =>
        /\ call.ret.kind = "return"
        /\ call.tried <= retry_count
        /\ call.delays = retry_delay * Cardinality(FailedNotLast(call))


\* C33: in every reachable Device state connection_attempts is between 0
\* and max_connection_attempts, whatever calls are made and whatever the
\* transport does.
C33_AttemptsBounded ==
    connection_attempts \in 0..max_connection_attempts

C33_Witness ==
    /\ IsCall("connect")
    /\ ~call.attempted
    /\ connection_attempts = max_connection_attempts
    /\ last_heartbeat # NoTime
    /\ command_history # <<>>

\* C36: connection_attempts decreases only in a connect() that succeeds;
\* once it equals max_connection_attempts it stays there and every connect()
\* returns false with status "connection_failed", whatever other calls are
\* made in between; disconnect() leaves connection_attempts as it is.
C36_BudgetNotRestored ==
    [][/\ connection_attempts' < connection_attempts =>
             Calls("connect") /\ call'.ret = TRUE
       /\ connection_attempts = max_connection_attempts =>
             /\ connection_attempts' = max_connection_attempts
             /\ Calls("connect") => call'.ret = FALSE /\ status' = "connection_failed"
       /\ Calls("disconnect") => connection_attempts' = connection_attempts]_vars

C36_Witness ==
    /\ IsCall("disconnect")
    /\ connection_attempts = max_connection_attempts
    /\ status = "disconnected"

\* C37: a connected device has a heartbeat, so check_connection never
\* compares the time with a missing heartbeat; is_connected becomes true
\* only in a connect() that succeeds.
C37_ConnectedHasHeartbeat ==
    /\ [](is_connected => last_heartbeat # NoTime)
    /\ [](IsCall("check_connection") => call.ret \in BOOLEAN)
    /\ [][~is_connected /\ is_connected' =>
             Calls("connect") /\ call'.ret = TRUE]_vars

C37_Witness ==
    /\ IsCall("check_connection")
    /\ call.ret = TRUE
    /\ is_connected
    /\ last_heartbeat # NoTime
    /\ connection_attempts = 0

\* C38: current_mode becomes null only in disconnect(): a check_connection()
\* that marks the connection lost leaves current_mode as it is, and
\* set_mode(m) with m registered succeeds connected or not.
C38_ModeResetOnlyByDisconnect ==
    [][/\ current_mode # None /\ current_mode' = None => Calls("disconnect")
       /\ Calls("check_connection") => current_mode' = current_mode
       /\ Calls("set_mode") /\ call'.mode \in Registered =>
             call'.ret = TRUE /\ current_mode' = call'.mode]_vars

C38_Witness ==
    /\ IsCall("check_connection")
    /\ status = "connection_lost"
    /\ ~is_connected
    /\ current_mode # None


\* The history is a chain from "initial" to current_state.
Chain ==
    IF history = <<>> THEN current_state = "initial"
    ELSE /\ history[1].from_state = "initial"
         /\ \A i \in 2..Len(history) : history[i].from_state = history[i - 1].to_state
         /\ history[Len(history)].to_state = current_state

\* C34: in every reachable state the history of a Mode is a chain: its first
\* entry starts at "initial", each entry starts where the previous one ends,
\* and the last entry ends at current_state (an empty history goes with
\* current_state "initial"); it has one entry for each transition_to call
\* that returned true: such a call adds one entry, any other step none.
C34_HistoryChain ==
    /\ []Chain
    /\ [][IF Calls("transition_to") /\ call'.ret = TRUE
          THEN Len(history') = Len(history) + 1 /\ SubSeq(history', 1, Len(history)) = history
          ELSE history' = history]_vars

C34_Witness ==
    /\ IsCall("transition_to")
    /\ call.ret = TRUE
    /\ Len(history) = 2
    /\ history[1].to_state # "initial"
    /\ history[2].from_state = history[1].to_state
    /\ current_state = history[2].to_state

\* C35: can_transition_to is a pure query: it changes no field of the Mode
\* and sends no notification; transition_to(t) returns true exactly when
\* can_transition_to(t), evaluated in the state of the call, returns true;
\* current_state changes only in a transition_to that returns true.
C35_QueryAgreesWithTransition ==
    [][/\ Calls("can_transition_to") =>
             /\ UNCHANGED <<modeVars, mode_observers>>
             /\ notes' = <<>>
             /\ delivered' = <<>>
             /\ call'.ret = can_transition_to(call'.to_state)
       /\ Calls("transition_to") =>
             call'.ret = can_transition_to(call'.to_state).ok
       /\ current_state' # current_state =>
             Calls("transition_to") /\ call'.ret = TRUE]_vars

C35_Witness ==
    /\ IsCall("can_transition_to")
    /\ call.ret.ok
    /\ call.to_state # current_state
    /\ history # <<>>
    /\ state_variables # <<>>


\* C39: add_command(c, required) on a command that is already allowed
\* changes nothing at all, so add_command(c, true) after add_command(c, false)
\* leaves c out of required_commands; a command enters required_commands
\* only in an add_command(c, true) call made while c is not allowed.
C39_AddCommandFrame ==
    [][/\ Calls("add_command") /\ call'.command \in Range(allowed_commands) =>
             /\ UNCHANGED <<devVars, cmdVars, modeVars, obsVars>>
             /\ notes' = <<>>
             /\ delivered' = <<>>
       /\ \A c \in ModeCommandIds :
             c \notin Range(required_commands) /\ c \in Range(required_commands') =>
                 /\ Calls("add_command")
                 /\ call'.command = c
                 /\ call'.required
                 /\ c \notin Range(allowed_commands)]_vars

C39_Witness ==
    /\ IsCall("add_command")
    /\ call.required
    /\ call.command \in Range(allowed_commands)
    /\ call.command \notin Range(required_commands)
    /\ required_commands # <<>>


\* C40: in the main window the timer only calls check_connection and nothing
\* calls update_heartbeat: the heartbeat is stamped only by a connect() that
\* succeeds, so once more than heartbeat_interval has passed since that
\* connect a timer tick on the connected device sets is_connected false with
\* status "connection_lost", and the device becomes connected again only in
\* a connect() call.
C40_WindowLosesConnection ==
    [][/\ call'.op \in {"none", "connect", "disconnect", "check_connection", "execute"}
       /\ last_heartbeat' # last_heartbeat =>
             /\ Calls("connect") /\ call'.ret = TRUE
             /\ last_heartbeat' = At(now)
       /\ (/\ Calls("check_connection")
           /\ is_connected
           /\ now - last_heartbeat[1] > heartbeat_interval) =>
             /\ ~is_connected'
             /\ status' = "connection_lost"
             /\ call'.ret = FALSE
       /\ ~is_connected /\ is_connected' => Calls("connect")]_vars

C40_Witness ==
    /\ IsCall("check_connection")
    /\ call.ret = FALSE
    /\ ~is_connected
    /\ status = "connection_lost"
    /\ now - last_heartbeat[1] > heartbeat_interval
    /\ delivered = <<"ui">>

====
